---- MODULE Spec2Model ----
(***************************************************************************)
(* Model of the deployment-target resolution script embedded in            *)
(* src/adev/src/app/core/constants/links.ts (lines 14-497): the remote-ref *)
(* cache and resolver (getRemoteRefs, getLatestCommit,                     *)
(* getMostRecentMinorBranch), the planner (computeDeploymentsInfo) and the *)
(* plan validator (validateDeploymentsInfo).                               *)
(*                                                                         *)
(* JavaScript strings are sequences of one-character strings (a few        *)
(* fixed substrings such as "refs" are kept as one token).  The value      *)
(* `undefined` of a branch-name expression is the token sequence           *)
(* Undefined, `null` is Null; the number NaN is the integer NaN.           *)
(***************************************************************************)
EXTENDS Integers, Sequences, FiniteSets, TLC

VARIABLES
    remoteRefs,             \* the branches of the remote: name -> commit or NoBranch
    GIT_REMOTE_REFS_CACHE,  \* line 28: the Map from cmd to its memoized result
    op,                     \* the exported function called last
    args,                   \* its arguments
    ret,                    \* what it returned
    queries,                \* the getRemoteRefs calls it made, in order
    validation,             \* the outcome of validateDeploymentsInfo, "none" before it ran
    firstResult,            \* history: first result returned for each cmd
    bypassed,               \* history: cmds queried with retrieveFromCache = false after their first access
    remoteAtCall,           \* history: the branches of the remote when the last call ran
    nCalls,                 \* number of resolver calls made so far
    nPushes                 \* number of changes of the remote so far

vars == <<remoteRefs, GIT_REMOTE_REFS_CACHE, op, args, ret, queries, validation,
          firstResult, bypassed, remoteAtCall, nCalls, nPushes>>

-----------------------------------------------------------------------------
(* Bounds *)

MaxCalls == 2
MaxPushes == 1
MaxPlanLen == 2

-----------------------------------------------------------------------------
(* JavaScript values *)

\* Sentinels among the numbers: no number the model computes reaches them.
NaN == -999999
UndefinedArg == -999998
Undefined == <<"undefined">>
Null == <<"null">>
EmptyString == <<>>

Digits == {"0", "1", "2", "3", "4", "5", "6", "7", "8", "9"}

DigitVal(c) ==
    CASE c = "0" -> 0 [] c = "1" -> 1 [] c = "2" -> 2 [] c = "3" -> 3
      [] c = "4" -> 4 [] c = "5" -> 5 [] c = "6" -> 6 [] c = "7" -> 7
      [] c = "8" -> 8 [] c = "9" -> 9

DigitChar(d) ==
    CASE d = 0 -> "0" [] d = 1 -> "1" [] d = 2 -> "2" [] d = 3 -> "3"
      [] d = 4 -> "4" [] d = 5 -> "5" [] d = 6 -> "6" [] d = 7 -> "7"
      [] d = 8 -> "8" [] d = 9 -> "9"

IsDigits(s) == Len(s) > 0 /\ \A i \in 1..Len(s) : s[i] \in Digits

RECURSIVE DecimalValue(_)
DecimalValue(s) ==
    IF s = <<>> THEN 0
    ELSE 10 * DecimalValue(SubSeq(s, 1, Len(s) - 1)) + DigitVal(s[Len(s)])

\* Number(s), as the unary plus of line 273 and the subtraction of line 333 apply it.
ToNumber(s) ==
    IF s = <<>> THEN 0
    ELSE IF IsDigits(s) THEN DecimalValue(s)
    ELSE NaN

RECURSIVE NumberToString(_)
\* `${n}` of a number, as the template literals of lines 148 and 324 apply it.
NumberToString(n) ==
    IF n = NaN THEN <<"N", "a", "N">>
    ELSE IF n < 10 THEN <<DigitChar(n)>>
    ELSE NumberToString(n \div 10) \o <<DigitChar(n % 10)>>

RECURSIVE SplitAt(_, _, _)
\* s.split(sep): acc is the piece being read.
SplitAt(s, sep, acc) ==
    IF s = <<>> THEN <<acc>>
    ELSE IF Head(s) = sep THEN <<acc>> \o SplitAt(Tail(s), sep, <<>>)
    ELSE SplitAt(Tail(s), sep, Append(acc, Head(s)))

Split(s, sep) == SplitAt(s, sep, <<>>)

\* a - b on numbers, NaN if either is.
Minus(a, b) == IF a = NaN \/ b = NaN THEN NaN ELSE a - b

\* a >= b on numbers: false if either is NaN.
GreaterOrEqual(a, b) == a # NaN /\ b # NaN /\ a >= b

-----------------------------------------------------------------------------
(* The remote *)

REPO_SLUG == <<"angular", "/", "angular">>
NG_REMOTE_URL == <<"https://github.com/">> \o REPO_SLUG \o <<".git">>

Master == <<"m", "a", "s", "t", "e", "r">>
Main == <<"m", "a", "i", "n">>
B2_9 == <<"2", ".", "9", ".", "x">>
B2_10 == <<"2", ".", "1", "0", ".", "x">>
B3_0 == <<"3", ".", "0", ".", "x">>
B3_a == <<"3", ".", "a", ".", "x">>

\* The branch names of the model, in the order `git ls-remote` lists refs
\* (by ref name, bytewise).
BranchOrder == <<B2_10, B2_9, B3_0, B3_a, Main, Master>>
Branches == {BranchOrder[i] : i \in 1..Len(BranchOrder)}

\* (major, minor) of the names of the model that are version branches.
VersionKey ==
    (B2_9 :> <<2, 9>>) @@ (B2_10 :> <<2, 10>>) @@ (B3_0 :> <<3, 0>>)

NoBranch == "-"
Sha1 == "c1"
Sha2 == "c2"
Commits == {Sha1, Sha2}

RefName(branch) == <<"refs", "/", "heads", "/">> \o branch

\* One output line of `git ls-remote`: "<sha>\trefs/heads/<branch>".
RefLine(sha, branch) == <<sha, "\t">> \o RefName(branch)

RECURSIVE WildMatch(_, _)
\* git's wildmatch without WM_PATHNAME, for patterns of literals and `*`.
WildMatch(p, s) ==
    IF p = <<>> THEN s = <<>>
    ELSE IF Head(p) = "*"
         THEN WildMatch(Tail(p), s) \/ (s # <<>> /\ WildMatch(p, Tail(s)))
    ELSE s # <<>> /\ Head(p) = Head(s) /\ WildMatch(Tail(p), Tail(s))

\* `git ls-remote <remote> <pattern>` shows the refs whose path tail matches.
LsRemoteMatches(pattern, branch) ==
    WildMatch(<<"*", "/">> \o pattern, <<"/">> \o RefName(branch))

RECURSIVE ListRefs(_, _, _)
ListRefs(refs, pattern, i) ==
    IF i > Len(BranchOrder) THEN <<>>
    ELSE LET b == BranchOrder[i]
         IN  (IF refs[b] # NoBranch /\ LsRemoteMatches(pattern, b)
              THEN <<RefLine(refs[b], b)>> ELSE <<>>)
             \o ListRefs(refs, pattern, i + 1)

\* exec(cmd, {silent: true}).trim().split('\n') of line 314: the lines of the
\* output, and [''] for an empty output.
ExecLsRemote(refs, pattern) ==
    LET lines == ListRefs(refs, pattern, 1)
    IN  IF lines = <<>> THEN <<EmptyString>> ELSE lines

-----------------------------------------------------------------------------
(* The resolver: lines 302-341 *)

DefaultOptions == [remote |-> NG_REMOTE_URL, retrieveFromCache |-> TRUE]

LsRemoteCmd(remote, refOrPattern) ==
    <<"git ls-remote ">> \o remote \o <<" ">> \o refOrPattern

\* lines 316-319: the result is cached and returned.  The record holds the
\* value returned, the cache afterwards and the call itself.
Memoized(cache, cmd, retrieveFromCache, result) ==
    [result |-> result,
     cache |-> (cmd :> result) @@ cache,
     query |-> [cmd |-> cmd, retrieveFromCache |-> retrieveFromCache,
                result |-> result]]

\* getRemoteRefs that queries the remote on every call.
getRemoteRefsNoCache(cache, refs, refOrPattern, options) ==
    Memoized(cache, LsRemoteCmd(options.remote, refOrPattern),
             options.retrieveFromCache, ExecLsRemote(refs, refOrPattern))

\* getRemoteRefs on cache `cache` and a remote whose branches are `refs`.
getRemoteRefs(cache, refs, refOrPattern, options) ==
    Memoized(cache, LsRemoteCmd(options.remote, refOrPattern),
             options.retrieveFromCache,
             IF /\ options.retrieveFromCache
                /\ LsRemoteCmd(options.remote, refOrPattern) \in DOMAIN cache
             THEN cache[LsRemoteCmd(options.remote, refOrPattern)]
             ELSE ExecLsRemote(refs, refOrPattern))

\* line.split('/')[2]
BranchOfLine(line) ==
    LET pieces == Split(line, "/")
    IN  IF Len(pieces) >= 3 THEN pieces[3] ELSE Undefined

\* /^\d+\.\d+\.x$/.test(name)
IsVersionBranch(name) ==
    LET parts == Split(name, ".")
    IN  /\ Len(parts) = 3
        /\ IsDigits(parts[1])
        /\ IsDigits(parts[2])
        /\ parts[3] = <<"x">>

\* Code-unit order of the characters branch names are made of.
CharRank(c) == IF c = "." THEN 0 ELSE IF c \in Digits THEN 1 + DigitVal(c) ELSE 20

RECURSIVE CompareAsText(_, _)
\* The order of a sort() without a comparator: by text.
CompareAsText(a, b) ==
    IF a = <<>> THEN (IF b = <<>> THEN 0 ELSE -1)
    ELSE IF b = <<>> THEN 1
    ELSE IF Head(a) = Head(b) THEN CompareAsText(Tail(a), Tail(b))
    ELSE CharRank(Head(a)) - CharRank(Head(b))

\* The comparator of lines 330-334: (majorA - majorB) || (minorA - minorB).
CompareVersions(a, b) ==
    LET pa == Split(a, ".")
        pb == Split(b, ".")
        dMajor == Minus(ToNumber(pa[1]), ToNumber(pb[1]))
        dMinor == Minus(ToNumber(pa[2]), ToNumber(pb[2]))
    IN  IF dMajor # 0 /\ dMajor # NaN THEN dMajor ELSE dMinor

RECURSIVE InsertSorted(_, _)
InsertSorted(sorted, x) ==
    IF sorted = <<>> THEN <<x>>
    ELSE LET last == sorted[Len(sorted)]
             c == CompareVersions(last, x)
         IN  IF c # NaN /\ c > 0
             THEN Append(InsertSorted(SubSeq(sorted, 1, Len(sorted) - 1), x), last)
             ELSE Append(sorted, x)

RECURSIVE SortByVersion(_)
\* Array.prototype.sort with the comparator: a stable insertion sort.
SortByVersion(names) ==
    IF names = <<>> THEN <<>>
    ELSE InsertSorted(SortByVersion(SubSeq(names, 1, Len(names) - 1)),
                      names[Len(names)])

\* .pop() as an expression: the last element, undefined for [].
Pop(a) == IF a = <<>> THEN Undefined ELSE a[Len(a)]

FilterVersionBranches(names) == SelectSeq(names, IsVersionBranch)

MajorPattern(major) ==
    <<"refs", "/", "heads", "/">>
      \o (IF major = UndefinedArg THEN <<"*">> ELSE NumberToString(major))
      \o <<".", "*", ".", "x">>

\* lines 325-336, on the refs that getRemoteRefs returned
MostRecentMinorBranchOf(r) ==
    [result |-> Pop(SortByVersion(FilterVersionBranches(
                    [i \in 1..Len(r.result) |-> BranchOfLine(r.result[i])]))),
     cache |-> r.cache,
     query |-> r.query]

getMostRecentMinorBranch(cache, refs, major, options) ==
    MostRecentMinorBranchOf(getRemoteRefs(cache, refs, MajorPattern(major), options))

\* [0].slice(0, 40) of the lines that getRemoteRefs returned; the sha token
\* of a line stands for its first 40 characters.
LatestCommitOf(r) ==
    [result |-> SubSeq(r.result[1], 1, IF Len(r.result[1]) >= 1 THEN 1 ELSE 0),
     cache |-> r.cache,
     query |-> r.query]

getLatestCommit(cache, refs, branchName, options) ==
    LatestCommitOf(getRemoteRefs(cache, refs, branchName, options))

\* line 273: +branchName.split('.', 1)[0]
computeMajorVersion(branchName) == ToNumber(Split(branchName, ".")[1])

-----------------------------------------------------------------------------
(* The planner: lines 94-248 *)

\* A skipped descriptor that does not say why.
skipDeploymentWithoutReason(reason) ==
    [name |-> "skipped", type |-> "skipped"]

\* line 366
skipDeployment(reason) ==
    [name |-> "skipped", type |-> "skipped", reason |-> reason]

\* lines 117-184
deploymentInfoPerTarget(currentBranchMajorVersion) ==
    [next |->
        [name |-> "next", type |-> "primary", deployEnv |-> "next",
         projectId |-> "angular-io", siteId |-> <<"next-angular-io-site">>,
         deployedUrl |-> <<"https://next.angular.io/">>,
         preDeployActions |-> <<"build", "checkPayloadSize">>,
         postDeployActions |-> <<"testPwaScore">>],
     rc |->
        [name |-> "rc", type |-> "primary", deployEnv |-> "rc",
         projectId |-> "angular-io", siteId |-> <<"rc-angular-io-site">>,
         deployedUrl |-> <<"https://rc.angular.io/">>,
         preDeployActions |-> <<"build", "checkPayloadSize">>,
         postDeployActions |-> <<"testPwaScore">>],
     stable |->
        [name |-> "stable", type |-> "primary", deployEnv |-> "stable",
         projectId |-> "angular-io",
         siteId |-> <<"v">> \o NumberToString(currentBranchMajorVersion)
                      \o <<"-angular-io-site">>,
         deployedUrl |-> <<"https://angular.io/">>,
         preDeployActions |-> <<"build", "checkPayloadSize">>,
         postDeployActions |-> <<"testPwaScore">>],
     archive |->
        [name |-> "archive", type |-> "primary", deployEnv |-> "archive",
         projectId |-> "angular-io",
         siteId |-> <<"v">> \o NumberToString(currentBranchMajorVersion)
                      \o <<"-angular-io-site">>,
         deployedUrl |-> <<"https://v">> \o NumberToString(currentBranchMajorVersion)
                           \o <<".angular.io/">>,
         preDeployActions |-> <<"build", "checkPayloadSize">>,
         postDeployActions |-> <<"testPwaScore">>],
     noActiveRc |->
        [name |-> "stableNoActiveRc", type |-> "secondary", deployEnv |-> "stable",
         projectId |-> "angular-io", siteId |-> <<"rc-angular-io-site">>,
         deployedUrl |-> <<"https://rc.angular.io/">>,
         preDeployActions |-> <<"removeServiceWorker", "redirectToAngularIo">>,
         postDeployActions |-> <<"testNoActiveRcDeployment">>]]

\* The trunk taken to be 'main'.
IsMain(currentBranch) == currentBranch = Main

\* line 187: currentBranch === 'master'
IsMaster(currentBranch) == currentBranch = Master

\* The most recent minor branch taken as the RC branch even when it is stable.
RcBranchIgnoringStable(mostRecentMinorBranch, stableBranch) == mostRecentMinorBranch

\* line 194
RcBranch(mostRecentMinorBranch, stableBranch) ==
    IF mostRecentMinorBranch # stableBranch THEN mostRecentMinorBranch ELSE Null

\* The two targets of lines 211-212 in the other order.
StablePlanSecondaryFirst(targets, rcBranch) ==
    IF rcBranch # Null
    THEN <<targets.stable>>
    ELSE <<targets.noActiveRc, targets.stable>>

\* lines 203-213
StablePlan(targets, rcBranch) ==
    IF rcBranch # Null
    THEN <<targets.stable>>
    ELSE <<targets.stable, targets.noActiveRc>>

\* lines 234-247, once the branch is the most recent minor of its major
ArchiveOrSkip(targets, currentMajor, stableMajor) ==
    IF GreaterOrEqual(currentMajor, stableMajor)
    THEN <<skipDeployment("equal or higher major version than the stable branch")>>
    ELSE <<targets.archive>>

\* lines 216-247: neither master, nor the RC branch, nor the stable branch.
\* m and mm are the two calls of getMostRecentMinorBranch.
PlanForOtherBranch(targets, m, mm, inputVars) ==
    [plan |->
        IF inputVars.currentBranch # mm.result
        THEN <<skipDeployment("more recent branch with the same major version")>>
        ELSE ArchiveOrSkip(targets, computeMajorVersion(inputVars.currentBranch),
                           computeMajorVersion(inputVars.stableBranch)),
     cache |-> mm.cache,
     queries |-> <<m.query, mm.query>>]

\* lines 194-247: m is the call of getMostRecentMinorBranch of line 193.
PlanForReleaseBranch(targets, m, refs, inputVars) ==
    IF inputVars.currentBranch = RcBranch(m.result, inputVars.stableBranch)
    THEN [plan |-> <<targets.rc>>, cache |-> m.cache, queries |-> <<m.query>>]
    ELSE IF inputVars.currentBranch = inputVars.stableBranch
    THEN [plan |-> StablePlan(targets, RcBranch(m.result, inputVars.stableBranch)),
          cache |-> m.cache, queries |-> <<m.query>>]
    ELSE PlanForOtherBranch(
            targets, m,
            getMostRecentMinorBranch(m.cache, refs,
                                     computeMajorVersion(inputVars.currentBranch),
                                     DefaultOptions),
            inputVars)

\* lines 115-247: the rules that follow the three skip rules.
PlanForBranch(cache, refs, inputVars) ==
    IF IsMaster(inputVars.currentBranch)
    THEN [plan |-> <<deploymentInfoPerTarget(
                       computeMajorVersion(inputVars.currentBranch)).next>>,
          cache |-> cache, queries |-> <<>>]
    ELSE PlanForReleaseBranch(
            deploymentInfoPerTarget(computeMajorVersion(inputVars.currentBranch)),
            getMostRecentMinorBranch(cache, refs, UndefinedArg, DefaultOptions),
            refs, inputVars)

\* computeDeploymentsInfo without the check of lines 107-113.
PlanIgnoringLatestCommit(cache, refs, inputVars) ==
    IF inputVars.repoOwner \o <<"/">> \o inputVars.repoName # REPO_SLUG
    THEN [plan |-> <<skipDeployment("not angular/angular")>>,
          cache |-> cache, queries |-> <<>>]
    ELSE IF inputVars.isPullRequest
    THEN [plan |-> <<skipDeployment("PR build")>>, cache |-> cache, queries |-> <<>>]
    ELSE PlanForBranch(cache, refs, inputVars)

\* The plan r with the call l made before it.
After(l, r) ==
    [plan |-> r.plan, cache |-> r.cache, queries |-> <<l.query>> \o r.queries]

\* lines 107-247: l is the call of getLatestCommit of line 107.
PlanForCommit(l, refs, inputVars) ==
    IF inputVars.currentCommit # l.result
    THEN [plan |-> <<skipDeployment("not the latest commit")>>,
          cache |-> l.cache, queries |-> <<l.query>>]
    ELSE After(l, PlanForBranch(l.cache, refs, inputVars))

\* lines 94-248: the plan, the cache afterwards and the queries made.
computeDeploymentsInfo(cache, refs, inputVars) ==
    IF inputVars.repoOwner \o <<"/">> \o inputVars.repoName # REPO_SLUG
    THEN [plan |-> <<skipDeployment("not angular/angular")>>,
          cache |-> cache, queries |-> <<>>]
    ELSE IF inputVars.isPullRequest
    THEN [plan |-> <<skipDeployment("PR build")>>, cache |-> cache, queries |-> <<>>]
    ELSE PlanForCommit(
            getLatestCommit(cache, refs, inputVars.currentBranch, DefaultOptions),
            refs, inputVars)

-----------------------------------------------------------------------------
(* The validator: lines 412-487 *)

knownTargetTypes == {"primary", "secondary", "skipped"}
requiredPropertiesForSkipped == {"name", "type", "reason"}
requiredPropertiesForNonSkipped ==
    {"name", "type", "deployEnv", "projectId", "siteId", "deployedUrl",
     "preDeployActions", "postDeployActions"}

\* target.type, "undefined" when the property is missing
TypeOf(target) == IF "type" \in DOMAIN target THEN target.type ELSE "undefined"

\* the properties `prop` with target[prop] === undefined (line 437)
MissingProperties(target) ==
    (IF TypeOf(target) = "skipped"
     THEN requiredPropertiesForSkipped ELSE requiredPropertiesForNonSkipped)
    \ DOMAIN target

\* deploymentsList.filter(({type}) => type === t)
TargetsOfType(deploymentsList, t) ==
    SelectSeq(deploymentsList, LAMBDA target : TypeOf(target) = t)

\* deploymentsList.indexOf(target), 0-based, -1 when absent
IndexOf(deploymentsList, target) ==
    IF \E i \in 1..Len(deploymentsList) : deploymentsList[i] = target
    THEN (CHOOSE i \in 1..Len(deploymentsList) :
            /\ deploymentsList[i] = target
            /\ \A j \in 1..(i - 1) : deploymentsList[j] # target) - 1
    ELSE 0 - 1

\* No secondary target found to differ from the primary.
NoNonMatchingSecondaryTargets(secondaryTargets, primaryTarget) == <<>>

\* lines 477-478
NonMatchingSecondaryTargets(secondaryTargets, primaryTarget) ==
    SelectSeq(secondaryTargets, LAMBDA t : t.deployEnv # primaryTarget.deployEnv)

\* "ok" when the function returns, else the check that threw.
validateDeploymentsInfo(deploymentsList) ==
    LET primaryTargets == TargetsOfType(deploymentsList, "primary")
        secondaryTargets == TargetsOfType(deploymentsList, "secondary")
        skippedTargets == TargetsOfType(deploymentsList, "skipped")
        otherTargets == SelectSeq(deploymentsList,
                                  LAMBDA target : TypeOf(target) \notin knownTargetTypes)
    IN  IF Len(otherTargets) > 0 THEN "throw: unknown type"
        ELSE IF \E i \in 1..Len(deploymentsList) :
                    MissingProperties(deploymentsList[i]) # {}
        THEN "throw: missing properties"
        ELSE IF Len(skippedTargets) > 0
        THEN (IF Len(deploymentsList) > 1 THEN "throw: not a single skipped target"
              ELSE "ok")
        ELSE IF Len(primaryTargets) # 1 THEN "throw: not exactly one primary target"
        ELSE
        LET primaryTarget == primaryTargets[1]
            primaryIndex == IndexOf(deploymentsList, primaryTarget)
            nonMatchingSecondaryTargets ==
                NonMatchingSecondaryTargets(secondaryTargets, primaryTarget)
        IN  IF primaryIndex # 0 THEN "throw: primary target not first"
            ELSE IF Len(nonMatchingSecondaryTargets) > 0
            THEN "throw: secondary deployEnv mismatch"
            ELSE "ok"

-----------------------------------------------------------------------------
(* The state machines.

   Spec is one run of the script (lines 42-75): the module is loaded with an
   empty cache, the remote is in some state, computeDeploymentsInfo runs on
   the input variables of the environment and validateDeploymentsInfo checks
   its plan.

   SpecResolver is a client of the exported resolver functions (lines 31-39):
   it calls getLatestCommit and getMostRecentMinorBranch, with or without
   options, while the remote changes between the calls.

   SpecValidate applies validateDeploymentsInfo to arbitrary lists of
   targets. *)

InputVars ==
    [currentBranch : Branches,
     currentCommit : {<<Sha1>>, <<Sha2>>},
     isPullRequest : BOOLEAN,
     repoName : {<<"angular">>},
     repoOwner : {<<"angular">>, <<"fork">>},
     stableBranch : {B2_9, B3_0, Main, Master}]

Options == [remote : {NG_REMOTE_URL}, retrieveFromCache : BOOLEAN]
Majors == {UndefinedArg, 2, 3}

Init ==
    /\ remoteRefs \in [Branches -> {NoBranch, Sha1}]
    /\ GIT_REMOTE_REFS_CACHE = <<>>
    /\ op = "init"
    /\ args = <<>>
    /\ ret = <<>>
    /\ queries = <<>>
    /\ validation = "none"
    /\ firstResult = <<>>
    /\ bypassed = {}
    /\ remoteAtCall = remoteRefs
    /\ nCalls = 0
    /\ nPushes = 0

\* The history of the queries a call made: the first result of each cmd, and
\* the cmds that were queried again with retrieveFromCache = false.
Record(qs) ==
    LET cmds == {qs[i].cmd : i \in 1..Len(qs)}
        QueryOf(cmd) == qs[CHOOSE i \in 1..Len(qs) : qs[i].cmd = cmd]
    IN  /\ queries' = qs
        /\ firstResult' =
             [cmd \in DOMAIN firstResult \cup cmds |->
                IF cmd \in DOMAIN firstResult THEN firstResult[cmd]
                ELSE QueryOf(cmd).result]
        /\ bypassed' = bypassed \cup
             {cmd \in cmds \cap DOMAIN firstResult : ~QueryOf(cmd).retrieveFromCache}
        /\ remoteAtCall' = remoteRefs

\* A new commit lands on a branch of the remote.
PushCommit(branch) ==
    /\ nPushes < MaxPushes
    /\ remoteRefs[branch] = Sha1
    /\ remoteRefs' = [remoteRefs EXCEPT ![branch] = Sha2]
    /\ nPushes' = nPushes + 1
    /\ UNCHANGED <<GIT_REMOTE_REFS_CACHE, op, args, ret, queries, validation,
                   firstResult, bypassed, remoteAtCall, nCalls>>

\* A branch is created on the remote.
CreateBranch(branch) ==
    /\ nPushes < MaxPushes
    /\ remoteRefs[branch] = NoBranch
    /\ remoteRefs' = [remoteRefs EXCEPT ![branch] = Sha1]
    /\ nPushes' = nPushes + 1
    /\ UNCHANGED <<GIT_REMOTE_REFS_CACHE, op, args, ret, queries, validation,
                   firstResult, bypassed, remoteAtCall, nCalls>>

\* line 45
ComputeDeploymentsInfo(inputVars) ==
    /\ op = "init"
    /\ LET r == computeDeploymentsInfo(GIT_REMOTE_REFS_CACHE, remoteRefs, inputVars)
       IN  /\ GIT_REMOTE_REFS_CACHE' = r.cache
           /\ op' = "computeDeploymentsInfo"
           /\ args' = inputVars
           /\ ret' = r.plan
           /\ Record(r.queries)
    /\ UNCHANGED <<remoteRefs, validation, nCalls, nPushes>>

\* line 48
ValidatePlan ==
    /\ op = "computeDeploymentsInfo"
    /\ validation = "none"
    /\ validation' = validateDeploymentsInfo(ret)
    /\ UNCHANGED <<remoteRefs, GIT_REMOTE_REFS_CACHE, op, args, ret, queries,
                   firstResult, bypassed, remoteAtCall, nCalls, nPushes>>

Next ==
    \/ \E branch \in Branches : op = "init" /\ PushCommit(branch)
    \/ \E branch \in Branches : op = "init" /\ CreateBranch(branch)
    \/ \E inputVars \in InputVars : ComputeDeploymentsInfo(inputVars)
    \/ ValidatePlan

Spec == Init /\ [][Next]_vars

GetLatestCommit(branchName, options) ==
    /\ nCalls < MaxCalls
    /\ LET r == getLatestCommit(GIT_REMOTE_REFS_CACHE, remoteRefs, branchName, options)
       IN  /\ GIT_REMOTE_REFS_CACHE' = r.cache
           /\ op' = "getLatestCommit"
           /\ args' = [branchName |-> branchName, options |-> options]
           /\ ret' = r.result
           /\ Record(<<r.query>>)
    /\ nCalls' = nCalls + 1
    /\ UNCHANGED <<remoteRefs, validation, nPushes>>

GetMostRecentMinorBranch(major, options) ==
    /\ nCalls < MaxCalls
    /\ LET r == getMostRecentMinorBranch(GIT_REMOTE_REFS_CACHE, remoteRefs, major, options)
       IN  /\ GIT_REMOTE_REFS_CACHE' = r.cache
           /\ op' = "getMostRecentMinorBranch"
           /\ args' = [major |-> major, options |-> options]
           /\ ret' = r.result
           /\ Record(<<r.query>>)
    /\ nCalls' = nCalls + 1
    /\ UNCHANGED <<remoteRefs, validation, nPushes>>

\* The branches the client asks the latest commit of.
QueriedBranches == {Master, B3_0}

NextResolver ==
    \/ \E branch \in Branches : PushCommit(branch)
    \/ \E branch \in DOMAIN VersionKey : CreateBranch(branch)
    \/ \E branchName \in QueriedBranches, options \in Options :
          GetLatestCommit(branchName, options)
    \/ \E major \in Majors, options \in Options :
          GetMostRecentMinorBranch(major, options)

\* The client starts with master and 3.a.x on the remote, and any of the
\* version branches.
InitResolver ==
    /\ Init
    /\ remoteRefs[Master] = Sha1 /\ remoteRefs[B3_a] = Sha1
    /\ remoteRefs[Main] = NoBranch

SpecResolver == InitResolver /\ [][NextResolver]_vars

\* Lists of targets, well-formed and not.
Without(target, prop) == [p \in DOMAIN target \ {prop} |-> target[p]]

Targets ==
    LET t == deploymentInfoPerTarget(3)
    IN  {t.next, t.rc, t.stable, t.noActiveRc,
         [t.noActiveRc EXCEPT !.deployEnv = "rc"],
         skipDeployment("PR build"),
         Without(skipDeployment("PR build"), "reason"),
         Without(t.next, "siteId"),
         [t.noActiveRc EXCEPT !.type = "tertiary"],
         Without(t.stable, "type")}

DeploymentsLists == UNION {[1..n -> Targets] : n \in 0..MaxPlanLen}

ValidateDeploymentsInfo(deploymentsList) ==
    /\ op = "init"
    /\ op' = "validateDeploymentsInfo"
    /\ args' = deploymentsList
    /\ validation' = validateDeploymentsInfo(deploymentsList)
    /\ UNCHANGED <<remoteRefs, GIT_REMOTE_REFS_CACHE, ret, queries,
                   firstResult, bypassed, remoteAtCall, nCalls, nPushes>>

NextValidate ==
    \E deploymentsList \in DeploymentsLists : ValidateDeploymentsInfo(deploymentsList)

SpecValidate == Init /\ [][NextValidate]_vars

-----------------------------------------------------------------------------
(* What the claims speak of, stated on the remote itself. *)

Newer(a, b) ==
    \/ VersionKey[a][1] > VersionKey[b][1]
    \/ VersionKey[a][1] = VersionKey[b][1] /\ VersionKey[a][2] > VersionKey[b][2]

\* The greatest of a non-empty set of version branches.
Greatest(S) == CHOOSE b \in S : \A c \in S \ {b} : Newer(b, c)

\* The version branches the remote had when the call ran.
RemoteVersionBranches == {b \in DOMAIN VersionKey : remoteAtCall[b] # NoBranch}

RemoteVersionBranchesOfMajor(n) ==
    {b \in RemoteVersionBranches : VersionKey[b][1] = n}

Planned == op = "computeDeploymentsInfo"

IsCanonicalRepo == args.repoOwner = <<"angular">> /\ args.repoName = <<"angular">>

\* currentCommit is the tip of currentBranch on the remote.
IsFresh ==
    /\ remoteAtCall[args.currentBranch] # NoBranch
    /\ args.currentCommit = <<remoteAtCall[args.currentBranch]>>

NoSkipRule == IsCanonicalRepo /\ ~args.isPullRequest /\ IsFresh

PlanNames == [i \in 1..Len(ret) |-> ret[i].name]
PlanTypes == [i \in 1..Len(ret) |-> ret[i].type]

IsSkippedPlan == Len(ret) = 1 /\ ret[1].type = "skipped" /\ "reason" \in DOMAIN ret[1]

\* There is an active RC: a most recent minor branch that is not the stable branch.
HasActiveRc ==
    /\ RemoteVersionBranches # {}
    /\ Greatest(RemoteVersionBranches) # args.stableBranch

IsRcBranch == HasActiveRc /\ args.currentBranch = Greatest(RemoteVersionBranches)

\* C1: whenever the repository is not angular/angular, or the build is a pull
\* request, or currentCommit is not the tip of currentBranch on the remote,
\* the plan is exactly one descriptor of type 'skipped', whatever the branch.
C1_SkipRulesTakePrecedence ==
    Planned /\ (~IsCanonicalRepo \/ args.isPullRequest \/ ~IsFresh) => IsSkippedPlan

\* A stale commit on master with master also the stable branch is skipped.
C1_Witness ==
    /\ Planned
    /\ IsCanonicalRepo /\ ~args.isPullRequest
    /\ args.currentBranch = Master /\ args.stableBranch = Master
    /\ remoteAtCall[Master] = Sha2 /\ args.currentCommit = <<Sha1>>
    /\ IsSkippedPlan

\* C2: with no skip rule applying and currentBranch 'master', the plan is
\* exactly [next], for every stableBranch and every set of version branches.
C2_MasterDeploysNext ==
    Planned /\ NoSkipRule /\ args.currentBranch = Master =>
        /\ PlanNames = <<"next">>
        /\ PlanTypes = <<"primary">>
        /\ ret[1].deployEnv = "next"
        /\ ret[1].siteId = <<"next-angular-io-site">>

C2_Witness ==
    /\ Planned /\ NoSkipRule
    /\ args.currentBranch = Master /\ args.stableBranch = Master
    /\ Cardinality(RemoteVersionBranches) >= 2
    /\ PlanNames = <<"next">>

\* C3: with no skip rule applying and currentBranch not 'master', the plan is
\* [rc] if and only if the overall most recent minor branch exists, differs
\* from stableBranch and equals currentBranch.
C3_RcIffMostRecentMinorNotStable ==
    Planned /\ NoSkipRule /\ args.currentBranch # Master =>
        /\ IsRcBranch <=> PlanNames = <<"rc">>
        /\ IsRcBranch => /\ PlanTypes = <<"primary">>
                         /\ ret[1].deployEnv = "rc"
                         /\ ret[1].siteId = <<"rc-angular-io-site">>
        /\ \A i \in 1..Len(ret) : ret[i].name = "rc" => IsRcBranch

C3_Witness ==
    /\ Planned /\ NoSkipRule
    /\ args.currentBranch = B3_0 /\ args.stableBranch = B2_9
    /\ RemoteVersionBranches = {B2_9, B2_10, B3_0}
    /\ PlanNames = <<"rc">>

\* C4: with no skip rule applying, currentBranch = stableBranch (not master)
\* and a most recent minor branch M on the remote: the plan is
\* [stable, stableNoActiveRc] in that order when M = stableBranch, and
\* exactly [stable] when M differs from stableBranch.
C4_StablePlan ==
    Planned /\ NoSkipRule /\ args.currentBranch # Master
      /\ args.currentBranch = args.stableBranch /\ RemoteVersionBranches # {} =>
        IF Greatest(RemoteVersionBranches) = args.stableBranch
        THEN /\ PlanNames = <<"stable", "stableNoActiveRc">>
             /\ PlanTypes = <<"primary", "secondary">>
             /\ ret[1].deployEnv = "stable" /\ ret[2].deployEnv = "stable"
             /\ ret[2].siteId = <<"rc-angular-io-site">>
        ELSE /\ PlanNames = <<"stable">>
             /\ PlanTypes = <<"primary">>
             /\ ret[1].deployEnv = "stable"

C4_Witness ==
    /\ Planned /\ NoSkipRule
    /\ args.currentBranch = B3_0 /\ args.stableBranch = B3_0
    /\ RemoteVersionBranches = {B2_9, B2_10, B3_0}
    /\ PlanNames = <<"stable", "stableNoActiveRc">>

\* currentBranch is the most recent minor branch of its major on the remote,
\* and its major is strictly lower than the major of stableBranch.
IsArchivable ==
    /\ args.currentBranch \in RemoteVersionBranches
    /\ args.currentBranch =
         Greatest(RemoteVersionBranchesOfMajor(VersionKey[args.currentBranch][1]))
    /\ args.stableBranch \in DOMAIN VersionKey
    /\ VersionKey[args.currentBranch][1] < VersionKey[args.stableBranch][1]

\* C5: with no skip rule applying and currentBranch neither master, nor the
\* RC branch, nor stableBranch, the plan is [archive] if and only if
\* currentBranch is the most recent minor branch of its major on the remote
\* and its major is strictly lower than stableBranch's major; otherwise it is
\* a single 'skipped' descriptor.
C5_ArchiveIffOlderMajor ==
    Planned /\ NoSkipRule /\ args.currentBranch # Master
      /\ ~IsRcBranch /\ args.currentBranch # args.stableBranch =>
        IF IsArchivable
        THEN PlanNames = <<"archive">> /\ PlanTypes = <<"primary">>
        ELSE IsSkippedPlan

\* C10: with no skip rule applying, currentBranch = stableBranch (not master)
\* and no version branch on the remote, the plan is
\* [stable, stableNoActiveRc], as when the most recent minor is stableBranch.
C10_NoVersionBranchMeansNoActiveRc ==
    Planned /\ NoSkipRule /\ args.currentBranch # Master
      /\ args.currentBranch = args.stableBranch /\ RemoteVersionBranches = {} =>
        PlanNames = <<"stable", "stableNoActiveRc">>

-----------------------------------------------------------------------------
(* The resolver's claims, under SpecResolver *)

\* The version branches among the ref lines a call got from getRemoteRefs.
SurvivingBranches(lines) ==
    {b \in DOMAIN VersionKey :
        \E i \in 1..Len(lines), sha \in Commits : lines[i] = RefLine(sha, b)}

\* C6: getMostRecentMinorBranch returns, among the returned refs whose branch
\* name matches ^\d+\.\d+\.x$, the one with the greatest (major, minor)
\* compared as numbers, and undefined when no ref matches; other refs do not
\* influence the result.
C6_MostRecentMinorIsNumericMaximum ==
    op = "getMostRecentMinorBranch" =>
        LET survivors == SurvivingBranches(queries[1].result)
        IN  IF survivors = {} THEN ret = Undefined
            ELSE ret = Greatest(survivors)

\* Major 2 with 2.9.x and 2.10.x on the remote gives 2.10.x.
C6_Witness ==
    /\ op = "getMostRecentMinorBranch"
    /\ args.major = 2
    /\ SurvivingBranches(queries[1].result) = {B2_9, B2_10}
    /\ ret = B2_10

ResolverCalled == op \in {"getLatestCommit", "getMostRecentMinorBranch"}

\* C8 as stated: every call of getRemoteRefs returns what the first call with
\* the same ref pattern and remote returned.
C8_EveryCallReturnsFirstResult ==
    ResolverCalled =>
        \A i \in 1..Len(queries) : queries[i].result = firstResult[queries[i].cmd]

\* C8, amended: a call of getRemoteRefs returns what the first call with the
\* same ref pattern and remote returned, even if the remote changed since,
\* unless a call for that query after the first one passed
\* retrieveFromCache: false.
C8_CallsReturnFirstResultUnlessBypassed ==
    ResolverCalled =>
        \A i \in 1..Len(queries) :
            queries[i].cmd \notin bypassed =>
                queries[i].result = firstResult[queries[i].cmd]

\* A second getLatestCommit returns the memoized commit although the branch
\* has a newer one.
C8_Witness ==
    /\ op = "getLatestCommit"
    /\ queries[1].cmd \notin bypassed
    /\ remoteAtCall[args.branchName] = Sha2
    /\ ret = <<Sha1>>
    /\ queries[1].result = firstResult[queries[1].cmd]

ResolutionError == <<"throw: ResolutionError">>

\* C9: getLatestCommit fails with a resolution error when the branch does not
\* exist on the remote (the query returns an empty result set).
C9_LatestCommitFailsForMissingBranch ==
    op = "getLatestCommit" /\ queries[1].result = <<EmptyString>> =>
        ret = ResolutionError

-----------------------------------------------------------------------------
(* The validator's claim, under SpecValidate *)

HasType(target, t) == "type" \in DOMAIN target /\ target.type = t

\* Invariant 1: a known type and all the fields required for it.
HasRequiredFields(target) ==
    \/ HasType(target, "skipped") /\ {"name", "type", "reason"} \subseteq DOMAIN target
    \/ /\ HasType(target, "primary") \/ HasType(target, "secondary")
       /\ {"name", "type", "deployEnv", "projectId", "siteId", "deployedUrl",
           "preDeployActions", "postDeployActions"} \subseteq DOMAIN target

PlanInvariants(plan) ==
    LET Of(t) == {i \in 1..Len(plan) : HasType(plan[i], t)}
    IN  /\ \A i \in 1..Len(plan) : HasRequiredFields(plan[i])
        /\ Of("skipped") # {} => Len(plan) = 1
        /\ Of("skipped") = {} => Of("primary") = {1}
        /\ \A i \in Of("secondary"), j \in Of("primary") :
              plan[i].deployEnv = plan[j].deployEnv

\* C7: validateDeploymentsInfo returns without throwing if and only if the
\* four plan invariants hold.
C7_ValidatorAcceptsIffInvariants ==
    op = "validateDeploymentsInfo" =>
        (validation = "ok" <=> PlanInvariants(args))

\* A well-formed [primary, secondary] list is accepted.
C7_Witness ==
    /\ op = "validateDeploymentsInfo"
    /\ Len(args) = 2
    /\ HasType(args[1], "primary") /\ HasType(args[2], "secondary")
    /\ validation = "ok"

-----------------------------------------------------------------------------
(* The planner and the validator together, under Spec *)

\* The plan is exactly one 'skipped' descriptor with a name and a reason.
IsSingleSkipped(plan) ==
    /\ Len(plan) = 1
    /\ HasType(plan[1], "skipped")
    /\ {"name", "reason"} \subseteq DOMAIN plan[1]

\* The first element is the only 'primary' descriptor, every element has all
\* the fields required of a deployment, and the elements after the first are
\* 'secondary' descriptors with the primary's deployEnv.
IsPrimaryThenSecondaries(plan) ==
    /\ Len(plan) >= 1
    /\ HasType(plan[1], "primary")
    /\ \A i \in 1..Len(plan) :
          {"name", "type", "deployEnv", "projectId", "siteId", "deployedUrl",
           "preDeployActions", "postDeployActions"} \subseteq DOMAIN plan[i]
    /\ \A i \in 2..Len(plan) :
          /\ HasType(plan[i], "secondary")
          /\ plan[i].deployEnv = plan[1].deployEnv

\* C11: every plan computeDeploymentsInfo returns, for any input variables and
\* any remote, is either exactly one 'skipped' descriptor with a reason, or a
\* list whose first element is its only 'primary' descriptor, with all
\* required fields, followed by 'secondary' descriptors with the primary's
\* deployEnv; and validateDeploymentsInfo, once it has run on the plan,
\* has accepted it.
C11_EveryPlanIsAccepted ==
    Planned =>
        /\ IsSingleSkipped(ret) \/ IsPrimaryThenSecondaries(ret)
        /\ validation \in {"none", "ok"}

\* The two-target plan of the stable branch has been validated and accepted.
C11_Witness ==
    /\ Planned /\ NoSkipRule
    /\ args.currentBranch = B3_0 /\ args.stableBranch = B3_0
    /\ PlanTypes = <<"primary", "secondary">>
    /\ ret[2].deployEnv = ret[1].deployEnv
    /\ validation = "ok"

====
